---- MODULE Spec2Model ----
(***************************************************************************)
(* A model of the EG4 proxy server (src/unnamed/part_000, the full server; *)
(* src/server.js is the same program without GET /working-modes).          *)
(*                                                                         *)
(* The process-wide state is sessionCookie, lastLoginTime and              *)
(* currentSerialNum.  Every async handler is a small process: one action   *)
(* per synchronous stretch of code between two awaits.  JavaScript values  *)
(* are records [ty, n, s]; strings are sequences of UTF-16 code units, so  *)
(* that formatting, parsing and comparison are computed, not assumed.      *)
(*                                                                         *)
(* Spec serves one request at a time (NoneInFlight).  SpecRace,            *)
(* SpecLogins, SpecStatus, SpecReads and SpecSets call the handlers at any *)
(* moment, so that they interleave at their awaits.  SpecSchedule,         *)
(* SpecGapFill and SpecRealtime run one handler over its upstream replies. *)
(***************************************************************************)
EXTENDS Integers, Sequences, FiniteSets, TLC

(***************************************************************************)
(* JavaScript values                                                       *)
(***************************************************************************)
Undefined == [ty |-> "undefined", n |-> 0, s |-> <<>>]
Null      == [ty |-> "null", n |-> 0, s |-> <<>>]
NaN       == [ty |-> "NaN", n |-> 0, s |-> <<>>]
Num(k)    == [ty |-> "number", n |-> k, s |-> <<>>]
Str(cs)   == [ty |-> "string", n |-> 0, s |-> cs]
Bool(b)   == [ty |-> "boolean", n |-> IF b THEN 1 ELSE 0, s |-> <<>>]
Arr(xs)   == [ty |-> "array", n |-> 0, s |-> xs]

\* code units of the characters the program writes or compares
ChZero  == 48
ChNine  == 57
ChColon == 58
ChMinus == 45
ChPlus  == 43
ChSpace == 32

S_0     == <<48>>                       \* '0'
S_true  == <<116, 114, 117, 101>>       \* 'true'
S_false == <<102, 97, 108, 115, 101>>   \* 'false'
S_NaN   == <<78, 97, 78>>               \* 'NaN'
S_0000  == <<48, 48, 58, 48, 48>>       \* '00:00'
S_2400  == <<50, 52, 58, 48, 48>>       \* '24:00'

\* ToBoolean: undefined, null, NaN, 0, '' and false are falsy
Truthy(v) ==
  CASE v.ty = "undefined" -> FALSE
    [] v.ty = "null"      -> FALSE
    [] v.ty = "NaN"       -> FALSE
    [] v.ty = "number"    -> v.n # 0
    [] v.ty = "string"    -> v.s # <<>>
    [] v.ty = "boolean"   -> v.n = 1
    [] v.ty = "array"     -> TRUE

\* a || b
Or(a, b) == IF Truthy(a) THEN a ELSE b

\* a === b (NaN is not equal to itself)
StrictEq(a, b) == a.ty # "NaN" /\ b.ty # "NaN" /\ a = b

IsDigit(c) == c >= ChZero /\ c <= ChNine

RECURSIVE DigitsOf(_)
\* decimal digits of a non-negative integer
DigitsOf(k) == IF k < 10 THEN <<ChZero + k>> ELSE DigitsOf(k \div 10) \o <<ChZero + (k % 10)>>

\* String(v) for the values the program formats or parses
ToStr(v) ==
  CASE v.ty = "string"    -> v.s
    [] v.ty = "number"    -> IF v.n < 0 THEN <<ChMinus>> \o DigitsOf(0 - v.n) ELSE DigitsOf(v.n)
    [] v.ty = "NaN"       -> S_NaN
    [] v.ty = "boolean"   -> IF v.n = 1 THEN S_true ELSE S_false
    [] v.ty = "undefined" -> <<117, 110, 100, 101, 102, 105, 110, 101, 100>>
    [] v.ty = "null"      -> <<110, 117, 108, 108>>

\* StrWhiteSpaceChar: tab, LF, VT, FF, CR, space, NBSP, the Unicode space
\* separators, LS, PS and the BOM
IsWhiteSpace(c) ==
  \/ c \in {9, 10, 11, 12, 13, ChSpace, 160, 5760, 8232, 8233, 8239, 8287, 12288, 65279}
  \/ (c >= 8192 /\ c <= 8202)

RECURSIVE SkipSpaces(_)
\* the string without its leading white space
SkipSpaces(cs) == IF cs # <<>> /\ IsWhiteSpace(Head(cs)) THEN SkipSpaces(Tail(cs)) ELSE cs

RECURSIVE LeadingDigits(_)
LeadingDigits(cs) ==
  IF cs # <<>> /\ IsDigit(Head(cs)) THEN <<Head(cs)>> \o LeadingDigits(Tail(cs)) ELSE <<>>

RECURSIVE DigitsValue(_)
DigitsValue(ds) ==
  IF ds = <<>> THEN 0 ELSE 10 * DigitsValue(SubSeq(ds, 1, Len(ds) - 1)) + (ds[Len(ds)] - ChZero)

\* the value of a hexadecimal digit, -1 for any other character
HexValue(c) ==
  IF IsDigit(c) THEN c - ChZero
  ELSE IF c >= 97 /\ c <= 102 THEN c - 87
  ELSE IF c >= 65 /\ c <= 70 THEN c - 55
  ELSE 0 - 1

RECURSIVE LeadingHex(_)
LeadingHex(cs) ==
  IF cs # <<>> /\ HexValue(Head(cs)) >= 0 THEN <<Head(cs)>> \o LeadingHex(Tail(cs)) ELSE <<>>

RECURSIVE HexDigitsValue(_)
HexDigitsValue(ds) ==
  IF ds = <<>> THEN 0
  ELSE 16 * HexDigitsValue(SubSeq(ds, 1, Len(ds) - 1)) + HexValue(ds[Len(ds)])

\* the number a run of digits of value k stands for: NaN when the run is empty
ParseDigits(neg, ds, k) == IF ds = <<>> THEN NaN ELSE Num(IF neg THEN 0 - k ELSE k)

\* after the sign: a prefix 0x or 0X selects radix 16, otherwise radix 10; the
\* longest run of digits of that radix is the number
ParseBody(neg, body) ==
  IF Len(body) >= 2 /\ body[1] = ChZero /\ body[2] \in {120, 88}
  THEN LET ds == LeadingHex(SubSeq(body, 3, Len(body)))
       IN ParseDigits(neg, ds, HexDigitsValue(ds))
  ELSE LET ds == LeadingDigits(body)
       IN ParseDigits(neg, ds, DigitsValue(ds))

\* after the leading white space: an optional sign
ParseSigned(t) ==
  IF t # <<>> /\ Head(t) \in {ChMinus, ChPlus}
  THEN ParseBody(Head(t) = ChMinus, Tail(t))
  ELSE ParseBody(FALSE, t)

\* parseInt(v) without a radix: String(v), leading white space, a sign, then
\* the digits
parseInt(v) == ParseSigned(SkipSpaces(ToStr(v)))

\* cs.padStart(2, '0')
padStart2(cs) == IF Len(cs) = 0 THEN <<ChZero, ChZero>>
                 ELSE IF Len(cs) = 1 THEN <<ChZero>> \o cs ELSE cs

\* the time without the zero padding
FormatTime_NoPadding(h, m) == ToStr(h) \o <<ChColon>> \o ToStr(m)

\* `${String(h).padStart(2,'0')}:${String(m).padStart(2,'0')}`
FormatTime(h, m) == padStart2(ToStr(h)) \o <<ChColon>> \o padStart2(ToStr(m))

RECURSIVE SeqLess(_, _)
\* lexicographic order of two sequences of numbers
SeqLess(a, b) ==
  IF b = <<>> THEN FALSE
  ELSE IF a = <<>> THEN TRUE
  ELSE IF Head(a) # Head(b) THEN Head(a) < Head(b)
  ELSE SeqLess(Tail(a), Tail(b))

\* a < b and a > b on strings compare UTF-16 code units
StrLT(a, b) == SeqLess(a, b)
StrGT(a, b) == SeqLess(b, a)

\* collation rank of localeCompare for the characters of a time string:
\* punctuation sorts before digits, digits before letters
LocaleRank(c) ==
  IF IsDigit(c) THEN c
  ELSE IF c >= 97 /\ c <= 122 THEN 2 * c
  ELSE IF c >= 65 /\ c <= 90 THEN 2 * (c + 32) + 1
  ELSE 0

LocaleRanks(cs) == [i \in 1..Len(cs) |-> LocaleRank(cs[i])]

\* a.localeCompare(b) < 0
LocaleLess(a, b) == SeqLess(LocaleRanks(a), LocaleRanks(b))

(***************************************************************************)
(* GET /api/eg4/working-modes: schedule reconstruction                     *)
(***************************************************************************)
\* allFields[k]: a key that is absent reads as undefined
Get(f, k) == IF k \in DOMAIN f THEN f[k] ELSE Undefined

\* Object.assign(target, source): keys of source overwrite
ObjectAssign(target, source) ==
  [k \in DOMAIN target \cup DOMAIN source |->
     IF k \in DOMAIN source THEN source[k] ELSE target[k]]

acPrefixes ==
  << [sh |-> "HOLD_AC_CHARGE_START_HOUR", sm |-> "HOLD_AC_CHARGE_START_MINUTE",
      eh |-> "HOLD_AC_CHARGE_END_HOUR", em |-> "HOLD_AC_CHARGE_END_MINUTE"],
     [sh |-> "HOLD_AC_CHARGE_START_HOUR_1", sm |-> "HOLD_AC_CHARGE_START_MINUTE_1",
      eh |-> "HOLD_AC_CHARGE_END_HOUR_1", em |-> "HOLD_AC_CHARGE_END_MINUTE_1"],
     [sh |-> "HOLD_AC_CHARGE_START_HOUR_2", sm |-> "HOLD_AC_CHARGE_START_MINUTE_2",
      eh |-> "HOLD_AC_CHARGE_END_HOUR_2", em |-> "HOLD_AC_CHARGE_END_MINUTE_2"] >>

psSlots ==
  << [sh |-> "LSP_HOLD_DIS_CHG_POWER_TIME_37", sm |-> "LSP_HOLD_DIS_CHG_POWER_TIME_38",
      eh |-> "LSP_HOLD_DIS_CHG_POWER_TIME_39", em |-> "LSP_HOLD_DIS_CHG_POWER_TIME_40"],
     [sh |-> "LSP_HOLD_DIS_CHG_POWER_TIME_41", sm |-> "LSP_HOLD_DIS_CHG_POWER_TIME_42",
      eh |-> "LSP_HOLD_DIS_CHG_POWER_TIME_43", em |-> "LSP_HOLD_DIS_CHG_POWER_TIME_44"] >>

fcPrefixes ==
  << [sh |-> "HOLD_FORCED_CHARGE_START_HOUR", sm |-> "HOLD_FORCED_CHARGE_START_MINUTE",
      eh |-> "HOLD_FORCED_CHARGE_END_HOUR", em |-> "HOLD_FORCED_CHARGE_END_MINUTE"],
     [sh |-> "HOLD_FORCED_CHARGE_START_HOUR_1", sm |-> "HOLD_FORCED_CHARGE_START_MINUTE_1",
      eh |-> "HOLD_FORCED_CHARGE_END_HOUR_1", em |-> "HOLD_FORCED_CHARGE_END_MINUTE_1"] >>

fdPrefixes ==
  << [sh |-> "HOLD_FORCED_DISCHARGE_START_HOUR", sm |-> "HOLD_FORCED_DISCHARGE_START_MINUTE",
      eh |-> "HOLD_FORCED_DISCHARGE_END_HOUR", em |-> "HOLD_FORCED_DISCHARGE_END_MINUTE"],
     [sh |-> "HOLD_FORCED_DISCHARGE_START_HOUR_1", sm |-> "HOLD_FORCED_DISCHARGE_START_MINUTE_1",
      eh |-> "HOLD_FORCED_DISCHARGE_END_HOUR_1", em |-> "HOLD_FORCED_DISCHARGE_END_MINUTE_1"] >>

\* parseInt(allFields[k] || '0')
ReadInt(f, k) == parseInt(Or(Get(f, k), Str(S_0)))

\* startH !== endH || startM !== endM
SlotKept(startH, startM, endH, endM) == ~StrictEq(startH, endH) \/ ~StrictEq(startM, endM)

\* one iteration of a slot loop: the {start, end} pushed for prefix p, or none
SlotOf(f, p) ==
  LET startH == ReadInt(f, p.sh)
      startM == ReadInt(f, p.sm)
      endH   == ReadInt(f, p.eh)
      endM   == ReadInt(f, p.em)
  IN IF SlotKept(startH, startM, endH, endM)
     THEN << [start |-> FormatTime(startH, startM), end |-> FormatTime(endH, endM)] >>
     ELSE << >>

RECURSIVE ExtractSlots(_, _)
\* for (const p of prefixes) { ... push ... }
ExtractSlots(f, prefixes) ==
  IF prefixes = <<>> THEN <<>>
  ELSE SlotOf(f, Head(prefixes)) \o ExtractSlots(f, Tail(prefixes))

acCharge(f)        == ExtractSlots(f, acPrefixes)
peakShaving(f)     == ExtractSlots(f, psSlots)
forcedCharge(f)    == ExtractSlots(f, fcPrefixes)
forcedDischarge(f) == ExtractSlots(f, fdPrefixes)

\* any truthy flag value switches the family on
FlagOn_Truthy(f, k) == Truthy(Get(f, k))

\* allFields[k] === true || allFields[k] === 'true'
FlagOn(f, k) == StrictEq(Get(f, k), Bool(TRUE)) \/ StrictEq(Get(f, k), Str(S_true))

peakEnabled(f)            == FlagOn(f, "FUNC_GRID_PEAK_SHAVING")
forcedChargeEnabled(f)    == FlagOn(f, "FUNC_FORCED_CHG_EN")
forcedDischargeEnabled(f) == FlagOn(f, "FUNC_FORCED_DISCHG_EN")

\* { mode, ...slot } for every slot of a family
Tagged(name, slots) ==
  [i \in 1..Len(slots) |-> [mode |-> name, start |-> slots[i].start, end |-> slots[i].end]]

\* the pooled modes array before sorting, from the four raw lists
PoolModes(f, ac, ps, fc, fd) ==
  Tagged("AC Charge", ac)
  \o (IF peakEnabled(f) THEN Tagged("Peak Shaving", ps) ELSE <<>>)
  \o (IF forcedChargeEnabled(f) THEN Tagged("Forced Charge", fc) ELSE <<>>)
  \o (IF forcedDischargeEnabled(f) THEN Tagged("Forced Discharge", fd) ELSE <<>>)

RECURSIVE InsertSorted(_, _)
\* x goes before the first element that sorts strictly after it
InsertSorted(x, sorted) ==
  IF sorted = <<>> THEN <<x>>
  ELSE IF LocaleLess(x.start, Head(sorted).start) THEN <<x>> \o sorted
  ELSE <<Head(sorted)>> \o InsertSorted(x, Tail(sorted))

RECURSIVE SortFrom(_, _)
SortFrom(ms, acc) == IF ms = <<>> THEN acc ELSE SortFrom(Tail(ms), InsertSorted(Head(ms), acc))

\* modes.sort((a, b) => a.start.localeCompare(b.start)): a stable sort
SortModes(ms) == SortFrom(ms, <<>>)

SelfConsumption(from, to) == [mode |-> "Self Consumption", start |-> from, end |-> to]

RECURSIVE Walk(_, _, _)
\* for (const m of modes) { if (m.start > cursor) push fill; push m; cursor = m.end }
Walk(ms, cursor, out) ==
  IF ms = <<>> THEN [schedule |-> out, cursor |-> cursor]
  ELSE LET m == Head(ms)
           fill == IF StrGT(m.start, cursor) THEN <<SelfConsumption(cursor, m.start)>> ELSE <<>>
       IN Walk(Tail(ms), m.end, out \o fill \o <<m>>)

\* the gap fill without the case of an empty modes array
GapFill_NoEmptyCase(ms) ==
  LET w    == Walk(ms, S_0000, <<>>)
      tail == IF StrLT(w.cursor, S_2400) /\ w.cursor # S_0000
              THEN <<SelfConsumption(w.cursor, S_2400)>> ELSE <<>>
  IN w.schedule \o tail

\* the gap fill of a sorted modes array
GapFill(ms) ==
  LET w    == Walk(ms, S_0000, <<>>)
      tail == IF StrLT(w.cursor, S_2400) /\ w.cursor # S_0000
              THEN <<SelfConsumption(w.cursor, S_2400)>> ELSE <<>>
      whole == IF Len(ms) = 0 THEN <<SelfConsumption(S_0000, S_2400)>> ELSE <<>>
  IN w.schedule \o tail \o whole

\* the integer thresholds of batterySettings (the two voltages, read with
\* parseFloat, are left out)
batterySettings(f) ==
  [acChargeStartSOC  |-> ReadInt(f, "HOLD_AC_CHARGE_START_BATTERY_SOC"),
   acChargeEndSOC    |-> ReadInt(f, "HOLD_AC_CHARGE_END_BATTERY_SOC"),
   peakShavingSOC1   |-> ReadInt(f, "_12K_HOLD_GRID_PEAK_SHAVING_SOC"),
   peakShavingSOC2   |-> ReadInt(f, "_12K_HOLD_GRID_PEAK_SHAVING_SOC_2"),
   peakShavingPower1 |-> ReadInt(f, "_12K_HOLD_GRID_PEAK_SHAVING_POWER"),
   peakShavingPower2 |-> ReadInt(f, "_12K_HOLD_GRID_PEAK_SHAVING_POWER_2")]

\* the 200 body of GET /working-modes for the merged register fields f
WorkingModesBody(f) ==
  LET ac == acCharge(f)
      ps == peakShaving(f)
      fc == forcedCharge(f)
      fd == forcedDischarge(f)
  IN [success |-> TRUE,
      schedule |-> GapFill(SortModes(PoolModes(f, ac, ps, fc, fd))),
      acCharge |-> ac,
      peakShaving |-> ps,
      peakShavingEnabled |-> peakEnabled(f),
      forcedCharge |-> fc,
      forcedDischarge |-> fd,
      batterySettings |-> batterySettings(f),
      firmware |-> Or(Get(f, "HOLD_FW_CODE"), Null),
      deviceTime |-> Or(Get(f, "HOLD_TIME"), Null)]

(***************************************************************************)
(* Bounds and input domains                                                *)
(***************************************************************************)
\* how many times the clock advances in a run
MaxTicks == 3
\* how many plants the plant list holds at most
MaxPlants == 2

MinuteMs == 60 * 1000
\* the clock advances by one minute or by twenty-nine
TickSteps == {1 * MinuteMs, 29 * MinuteMs}

SESSION_TIMEOUT == 30 * 60 * 1000

SerialNums == {Str(<<83, 49>>), Str(<<83, 50>>)}      \* 'S1', 'S2'

\* what a fetch can come back with
Throw      == [kind |-> "throw", msg |-> "fetch failed", data |-> <<>>]
Json(d)    == [kind |-> "json", msg |-> "", data |-> d]

\* the set-cookie headers of the upstream login response: none, an empty list,
\* one cookie with attributes, one bare cookie
SetCookieHeaders ==
  { Undefined, Arr(<<>>), Arr(<< <<65, 59, 80>> >>), Arr(<< <<66>> >>) }

NoResponse == [op |-> "none", status |-> 0, body |-> <<>>, at |-> 0]
IdleProc   == [pc |-> "idle"]
\* the POST /login calls that can be in flight together
LoginIds   == {1, 2}
NoAuth     == [id |-> 0, cookie |-> Null]

VARIABLES
  sessionCookie,     \* let sessionCookie: null or the joined cookie string
  lastLoginTime,     \* let lastLoginTime: null or Date.now() of the last login
  currentSerialNum,  \* let currentSerialNum: null or the selected serial number
  now,               \* Date.now(), in milliseconds
  ticks,             \* how often the clock has advanced
  login,             \* the POST /login handler between its awaits
  wm,                \* the GET /working-modes handler between its awaits
  rs,                \* the GET /read-settings handler between its awaits
  st,                \* a POST /set-* handler between its awaits
  rt,                \* the GET /realtime handler between its awaits
  res,               \* the response sent last
  reloginPending,    \* history: the session was invalid and no login has succeeded since
  lastAuth           \* history: the login whose authentication response came last, and its cookie

vars == <<sessionCookie, lastLoginTime, currentSerialNum, now, ticks,
          login, wm, rs, st, rt, res, reloginPending, lastAuth>>

session == <<sessionCookie, lastLoginTime, currentSerialNum>>
procs   == <<login, wm, rs, st, rt>>

\* the session still counts as valid when exactly the timeout has passed
SessionValidAt_Inclusive(c, t, clock) ==
  IF ~Truthy(c) THEN c
  ELSE IF ~Truthy(t) THEN t
  ELSE Bool(clock - t.n <= SESSION_TIMEOUT)

\* sessionCookie && lastLoginTime && (Date.now() - lastLoginTime < SESSION_TIMEOUT),
\* evaluated for cookie c and login time t at clock reading clock
SessionValidAt(c, t, clock) ==
  IF ~Truthy(c) THEN c
  ELSE IF ~Truthy(t) THEN t
  ELSE Bool(clock - t.n < SESSION_TIMEOUT)

isSessionValid == SessionValidAt(sessionCookie, lastLoginTime, now)

\* the history variable after a step that leaves the session as (c, t) at clock
PendingAfter(c, t, clock) == reloginPending \/ ~Truthy(SessionValidAt(c, t, clock))

Respond(op, status, body, ghost) ==
  res' = [op |-> op, status |-> status, body |-> body, at |-> now, ghost |-> ghost]

Busy(p) == p.pc # "idle"
\* one request is handled at a time
NoneInFlight ==
  /\ \A i \in LoginIds : ~Busy(login[i])
  /\ ~Busy(wm) /\ ~Busy(rs) /\ ~Busy(st) /\ ~Busy(rt)

NoGhost == [pending |-> FALSE]

Init ==
  /\ sessionCookie = Null
  /\ lastLoginTime = Null
  /\ currentSerialNum = Null
  /\ now = MinuteMs
  /\ ticks = 0
  /\ login = [i \in LoginIds |-> IdleProc]
  /\ wm = IdleProc /\ rs = IdleProc /\ st = IdleProc /\ rt = IdleProc
  /\ res = NoResponse
  /\ reloginPending = TRUE
  /\ lastAuth = NoAuth

\* time passes
Tick ==
  /\ ticks < MaxTicks
  /\ \E d \in TickSteps :
       /\ now' = now + d
       /\ reloginPending' = PendingAfter(sessionCookie, lastLoginTime, now + d)
  /\ ticks' = ticks + 1
  /\ UNCHANGED <<session, procs, res, lastAuth>>

(***************************************************************************)
(* POST /api/eg4/login                                                     *)
(***************************************************************************)
RECURSIVE BeforeSemicolon(_)
\* c.split(';')[0]
BeforeSemicolon(cs) ==
  IF cs = <<>> \/ Head(cs) = 59 THEN <<>> ELSE <<Head(cs)>> \o BeforeSemicolon(Tail(cs))

RECURSIVE JoinCookies(_)
\* parts.join('; ')
JoinCookies(parts) ==
  IF parts = <<>> THEN <<>>
  ELSE IF Len(parts) = 1 THEN Head(parts)
  ELSE Head(parts) \o <<59, ChSpace>> \o JoinCookies(Tail(parts))

\* extractCookies(response) for raw = response.headers.raw()['set-cookie']
extractCookies(raw) ==
  IF ~Truthy(raw) THEN Null
  ELSE Str(JoinCookies([i \in 1..Len(raw.s) |-> BeforeSemicolon(raw.s[i])]))

Plants    == { [id |-> 1, name |-> "Home", address |-> "1 Main St"],
               [id |-> 2, name |-> "Barn", address |-> ""] }
Inverters == { [serialNum |-> Str(<<83, 49>>), deviceTypeText |-> "18kPV", statusText |-> "Normal"],
               [serialNum |-> Str(<<83, 50>>), deviceTypeText |-> "12kPV", statusText |-> "Offline"] }

\* the rows of a list reply: ascending sequences of at most max items
RowLists(items, max) ==
  { s \in UNION { [1..n -> items] : n \in 0..max } :
      \A i \in 1..Len(s) - 1 : s[i].id < s[i + 1].id }
PlantRows == RowLists(Plants, MaxPlants)
\* the inverter rows of one plant: none, one inverter, or both in either order
InverterRows ==
  { <<>> } \cup { <<inv>> : inv \in Inverters }
    \cup { <<a, b>> : <<a, b>> \in { p \in Inverters \X Inverters : p[1] # p[2] } }

\* stations.push({...}) for every inverter of the plant
StationsOf(plant, invs) ==
  [i \in 1..Len(invs) |->
     [plantName |-> plant.name, plantId |-> plant.id, serialNum |-> invs[i].serialNum,
      deviceType |-> invs[i].deviceTypeText, status |-> invs[i].statusText,
      address |-> plant.address]]

\* a handler that has just been called: nothing fetched, nothing gathered
LoginStart ==
  [pc |-> "auth", before |-> <<sessionCookie, lastLoginTime>>, own |-> Null,
   rows |-> <<>>, plants |-> <<>>, stations |-> <<>>, listed |-> <<>>, cookies |-> <<>>,
   sent |-> [url |-> "/web/login", cookie |-> Null]]

\* history of a login call, kept with its response: the session before the
\* call, the credential its authentication returned, the plant rows, the
\* inverter rows received per plant, the stations gathered and the credentials
\* its listing fetches carried
LoginGhost(p) ==
  [before |-> p.before, own |-> p.own, rows |-> p.rows, listed |-> p.listed,
   gathered |-> p.stations, cookies |-> p.cookies]

\* the request and its validation, then the upstream login fetch
LoginCall(self) ==
  /\ ~Busy(login[self])
  /\ \E account \in {Undefined, Str(<<117>>)}, password \in {Undefined, Str(<<112>>)} :
       IF ~Truthy(account) \/ ~Truthy(password)
       THEN /\ Respond("login", 400, [error |-> "Account and password required"],
                       LoginGhost(LoginStart))
            /\ UNCHANGED login
       ELSE /\ login' = [login EXCEPT ![self] = LoginStart]
            /\ res' = NoResponse
  /\ UNCHANGED <<session, now, ticks, wm, rs, st, rt, reloginPending, lastAuth>>

\* POST /login called while no other request is in flight
LoginRequest(self) == NoneInFlight /\ LoginCall(self)

\* the error answer that also hands out the stations gathered so far
LoginFail_PartialStations(self, status, body) ==
  /\ Respond("login", status, [error |-> body.error, stations |-> login[self].stations],
             LoginGhost(login[self]))
  /\ login' = [login EXCEPT ![self] = IdleProc]

LoginFail(self, status, body) ==
  /\ Respond("login", status, body, LoginGhost(login[self]))
  /\ login' = [login EXCEPT ![self] = IdleProc]

\* catch (err): 500
LoginThrow(self) ==
  /\ Busy(login[self])
  /\ LoginFail(self, 500, [error |-> "Login failed: " \o Throw.msg])
  /\ UNCHANGED <<session, now, ticks, wm, rs, st, rt, reloginPending, lastAuth>>

\* the upstream login answered: no cookie is 401, a cookie becomes the session
\* and the plant list is fetched with the stored cookie
LoginAuthReply(self) ==
  /\ login[self].pc = "auth"
  /\ \E raw \in SetCookieHeaders :
       LET cookies == extractCookies(raw)
       IN IF ~Truthy(cookies)
          THEN /\ LoginFail(self, 401, [error |-> "Authentication failed - invalid credentials"])
               /\ UNCHANGED <<sessionCookie, lastLoginTime, reloginPending, lastAuth>>
          ELSE /\ sessionCookie' = cookies
               /\ lastLoginTime' = Num(now)
               /\ lastAuth' = [id |-> self, cookie |-> cookies]
               /\ login' = [login EXCEPT ![self].pc = "plants", ![self].own = cookies,
                              ![self].cookies = <<cookies>>,
                              ![self].sent = [url |-> "/web/config/plant/list/viewer",
                                              cookie |-> cookies]]
               /\ UNCHANGED <<res, reloginPending>>
  /\ UNCHANGED <<currentSerialNum, now, ticks, wm, rs, st, rt>>

LoginSucceed(self, stations, ghost) ==
  /\ Respond("login", 200, [success |-> TRUE, stations |-> stations], ghost)
  /\ login' = [login EXCEPT ![self] = IdleProc]
  /\ reloginPending' = ~Truthy(isSessionValid)
  /\ UNCHANGED lastAuth

\* the plant list arrived: fetch the first plant's inverters or answer with no stations
LoginPlantsReply(self) ==
  /\ login[self].pc = "plants"
  /\ \E rows \in PlantRows :
       IF rows = <<>>
       THEN LoginSucceed(self, <<>>, LoginGhost(login[self]))
       ELSE /\ login' = [login EXCEPT ![self].pc = "inverters", ![self].rows = rows,
                           ![self].plants = rows,
                           ![self].cookies = Append(login[self].cookies, sessionCookie),
                           ![self].sent = [url |-> "/web/config/inverter/list",
                                           cookie |-> sessionCookie, plantId |-> rows[1].id]]
            /\ UNCHANGED <<res, reloginPending, lastAuth>>
  /\ UNCHANGED <<session, now, ticks, wm, rs, st, rt>>

\* an inverter list arrived: push its stations, go on with the next plant or answer
LoginInvertersReply(self) ==
  /\ login[self].pc = "inverters"
  /\ \E invs \in InverterRows :
       LET plant    == Head(login[self].plants)
           stations == login[self].stations \o StationsOf(plant, invs)
           listed   == Append(login[self].listed, [plant |-> plant, invs |-> invs])
           rest     == Tail(login[self].plants)
       IN IF rest = <<>>
          THEN LoginSucceed(self, stations,
                            LoginGhost([login[self] EXCEPT !.stations = stations,
                                                           !.listed = listed]))
          ELSE /\ login' = [login EXCEPT ![self].plants = rest, ![self].stations = stations,
                              ![self].listed = listed,
                              ![self].cookies = Append(login[self].cookies, sessionCookie),
                              ![self].sent = [url |-> "/web/config/inverter/list",
                                              cookie |-> sessionCookie, plantId |-> rest[1].id]]
               /\ UNCHANGED <<res, reloginPending, lastAuth>>
  /\ UNCHANGED <<session, now, ticks, wm, rs, st, rt>>

(***************************************************************************)
(* POST /select-station, GET /status, GET /                                *)
(***************************************************************************)
\* the handler: synchronous, it runs to its response in one step
SelectStationCall ==
  /\ \E serialNum \in {Undefined} \cup SerialNums :
       IF ~Truthy(serialNum)
       THEN /\ Respond("select-station", 400, [error |-> "serialNum required"], NoGhost)
            /\ UNCHANGED currentSerialNum
       ELSE /\ currentSerialNum' = serialNum
            /\ Respond("select-station", 200, [success |-> TRUE, serialNum |-> serialNum], NoGhost)
  /\ UNCHANGED <<sessionCookie, lastLoginTime, now, ticks, procs, reloginPending, lastAuth>>

\* POST /select-station called while no other request is in flight
SelectStation == NoneInFlight /\ SelectStationCall

\* new Date(lastLoginTime).toISOString(): the instant, tagged as a formatted date
ToISOString(t) == [ty |-> "isodate", n |-> t.n, s |-> <<>>]

\* the handler: synchronous, it answers from the globals of the moment
StatusCall ==
  /\ Respond("status", 200,
             [connected |-> isSessionValid, serialNum |-> currentSerialNum,
              lastLogin |-> IF Truthy(lastLoginTime) THEN ToISOString(lastLoginTime) ELSE Null],
             [cookie |-> sessionCookie])
  /\ UNCHANGED <<session, now, ticks, procs, reloginPending, lastAuth>>

\* GET /status called while no other request is in flight
Status == NoneInFlight /\ StatusCall

\* the handler: synchronous
RootCall ==
  /\ Respond("root", 200,
             [status |-> "EG4 Proxy Server running", connected |-> isSessionValid,
              serialNum |-> currentSerialNum],
             [cookie |-> sessionCookie])
  /\ UNCHANGED <<session, now, ticks, procs, reloginPending, lastAuth>>

\* GET / called while no other request is in flight
Root == NoneInFlight /\ RootCall

(***************************************************************************)
(* GET /api/eg4/working-modes                                              *)
(***************************************************************************)
batches == << [startRegister |-> 0, pointNumber |-> 127],
              [startRegister |-> 127, pointNumber |-> 127] >>

\* the remoteRead/read request of one batch, built from the globals of that moment
ReadRequest(batch) ==
  [url |-> "/web/maintain/remoteRead/read", cookie |-> sessionCookie,
   inverterSn |-> currentSerialNum, startRegister |-> batch.startRegister,
   pointNumber |-> batch.pointNumber]

\* history of one GET /working-modes call, kept with its response: the merged
\* fields, the batch reached, the reads sent and what each came back with
WorkingModesGhost(p, fields, answer) ==
  [pending |-> p.pending, fields |-> fields, batch |-> p.batch, reads |-> p.reads,
   answers |-> Append(p.answers, answer)]

\* the two gates, then the first batch read
WorkingModesCall ==
  /\ ~Busy(wm)
  /\ IF ~Truthy(isSessionValid)
     THEN /\ Respond("working-modes", 401, [error |-> "Not authenticated"],
                     [pending |-> reloginPending])
          /\ wm' = IdleProc
     ELSE IF ~Truthy(currentSerialNum)
     THEN /\ Respond("working-modes", 400, [error |-> "No station selected"],
                     [pending |-> reloginPending])
          /\ wm' = IdleProc
     ELSE /\ wm' = [pc |-> "read", batch |-> 1, allFields |-> <<>>,
                    sent |-> ReadRequest(batches[1]), pending |-> reloginPending,
                    reads |-> <<ReadRequest(batches[1])>>, answers |-> <<>>]
          /\ res' = NoResponse
  /\ UNCHANGED <<session, now, ticks, login, rs, st, rt, reloginPending, lastAuth>>

\* GET /working-modes called while no other request is in flight
WorkingModesRequest == NoneInFlight /\ WorkingModesCall

\* catch (err): 500 with the message
WorkingModesThrow ==
  /\ Busy(wm)
  /\ Respond("working-modes", 500, [error |-> Throw.msg],
             WorkingModesGhost(wm, wm.allFields, "throw"))
  /\ wm' = IdleProc
  /\ UNCHANGED <<session, now, ticks, login, rs, st, rt, reloginPending, lastAuth>>

\* a failed batch does not stop the loop
WorkingModesReply_IgnoreFailure(data) ==
  /\ wm.pc = "read"
  /\ LET allFields == ObjectAssign(wm.allFields, data)
         answer == IF Truthy(Get(data, "success")) THEN "ok" ELSE "failed"
     IN IF wm.batch < Len(batches)
        THEN /\ wm' = [wm EXCEPT !.batch = wm.batch + 1, !.allFields = allFields,
                                 !.sent = ReadRequest(batches[wm.batch + 1]),
                                 !.reads = Append(wm.reads, ReadRequest(batches[wm.batch + 1])),
                                 !.answers = Append(wm.answers, answer)]
             /\ UNCHANGED res
        ELSE /\ Respond("working-modes", 200, WorkingModesBody(allFields),
                        WorkingModesGhost(wm, allFields, answer))
             /\ wm' = IdleProc
  /\ UNCHANGED <<session, now, ticks, login, rs, st, rt, reloginPending, lastAuth>>

\* a batch answered with the JSON object data
WorkingModesReply(data) ==
  /\ wm.pc = "read"
  /\ IF ~Truthy(Get(data, "success"))
     THEN /\ Respond("working-modes", 500,
                     [error |-> "Failed to read registers", batch |-> batches[wm.batch]],
                     WorkingModesGhost(wm, wm.allFields, "failed"))
          /\ wm' = IdleProc
     ELSE LET allFields == ObjectAssign(wm.allFields, data)
          IN IF wm.batch < Len(batches)
             THEN /\ wm' = [wm EXCEPT !.batch = wm.batch + 1, !.allFields = allFields,
                                      !.sent = ReadRequest(batches[wm.batch + 1]),
                                      !.reads = Append(wm.reads, ReadRequest(batches[wm.batch + 1])),
                                      !.answers = Append(wm.answers, "ok")]
                  /\ UNCHANGED res
             ELSE /\ Respond("working-modes", 200, WorkingModesBody(allFields),
                             WorkingModesGhost(wm, allFields, "ok"))
                  /\ wm' = IdleProc
  /\ UNCHANGED <<session, now, ticks, login, rs, st, rt, reloginPending, lastAuth>>

(***************************************************************************)
(* GET /api/eg4/read-settings                                              *)
(***************************************************************************)
SettingsData == { Undefined, Str(<<100>>) }

\* the two gates, then both fetches, built from the globals of the moment
ReadSettingsCall ==
  /\ ~Busy(rs)
  /\ IF ~Truthy(isSessionValid)
     THEN /\ Respond("read-settings", 401, [error |-> "Not authenticated"],
                     [pending |-> reloginPending])
          /\ rs' = IdleProc
     ELSE IF ~Truthy(currentSerialNum)
     THEN /\ Respond("read-settings", 400, [error |-> "No station selected"],
                     [pending |-> reloginPending])
          /\ rs' = IdleProc
     ELSE /\ rs' = [pc |-> "await", pending |-> reloginPending,
                    sent |-> << [url |-> "/api/inverter/getInverterRuntime",
                                 cookie |-> sessionCookie, serialNum |-> currentSerialNum],
                                [url |-> "/api/inverter/getSystemConfigInfo",
                                 cookie |-> sessionCookie, serialNum |-> currentSerialNum] >>]
          /\ res' = NoResponse
  /\ UNCHANGED <<session, now, ticks, login, wm, st, rt, reloginPending, lastAuth>>

\* GET /read-settings called while no other request is in flight
ReadSettingsRequest == NoneInFlight /\ ReadSettingsCall

\* both fetches resolved: runtime.data and config.data are relayed
ReadSettingsReply ==
  /\ Busy(rs)
  /\ \E runtime \in SettingsData, config \in SettingsData :
       Respond("read-settings", 200,
               [success |-> TRUE, runtime |-> runtime, config |-> config],
               [pending |-> rs.pending])
  /\ rs' = IdleProc
  /\ UNCHANGED <<session, now, ticks, login, wm, st, rt, reloginPending, lastAuth>>

ReadSettingsThrow ==
  /\ Busy(rs)
  /\ Respond("read-settings", 500, [error |-> Throw.msg], [pending |-> rs.pending])
  /\ rs' = IdleProc
  /\ UNCHANGED <<session, now, ticks, login, wm, st, rt, reloginPending, lastAuth>>

(***************************************************************************)
(* POST /api/eg4/set-working-mode, set-ac-charge, set-peak-shaving,        *)
(* set-battery-settings                                                    *)
(***************************************************************************)
SetRoutes ==
  { [op |-> "set-working-mode",     url |-> "/api/inverter/setWorkingMode"],
    [op |-> "set-ac-charge",        url |-> "/api/inverter/setAcChargeConfig"],
    [op |-> "set-peak-shaving",     url |-> "/api/inverter/setPeakShavingConfig"],
    [op |-> "set-battery-settings", url |-> "/api/inverter/setBatteryConfig"] }
SetOps == { r.op : r \in SetRoutes }

\* req.body: nothing, a setting, a setting with a serial number of the caller's
Payloads ==
  { <<>>,
    [k \in {"mode"} |-> Str(<<109>>)],
    [k \in {"mode", "serialNum"} |-> IF k = "mode" THEN Str(<<109>>) ELSE Str(<<88>>)],
    [k \in {"serialNum"} |-> Str(<<83, 50>>)] }

\* what the upstream answers to a settings update
SetAnswers ==
  { [k \in {"success"} |-> Bool(TRUE)],
    [k \in {"success", "msg"} |-> IF k = "success" THEN Bool(FALSE) ELSE Str(<<101>>)] }

\* { serialNum: currentSerialNum, ...req.body }: the caller's serialNum wins
WithSerialNum_CallerWins(body, serialNum) ==
  [k \in DOMAIN body \cup {"serialNum"} |-> IF k \in DOMAIN body THEN body[k] ELSE serialNum]

\* { ...req.body, serialNum: currentSerialNum }
WithSerialNum(body, serialNum) ==
  [k \in DOMAIN body \cup {"serialNum"} |-> IF k = "serialNum" THEN serialNum ELSE body[k]]

\* the gate, then the fetch, built from the globals of the moment
SetCall ==
  /\ ~Busy(st)
  /\ \E route \in SetRoutes, body \in Payloads :
       IF ~Truthy(isSessionValid)
       THEN /\ Respond(route.op, 401, [error |-> "Not authenticated"],
                       [pending |-> reloginPending])
            /\ st' = IdleProc
       ELSE /\ st' = [pc |-> "await", op |-> route.op, pending |-> reloginPending,
                      payload |-> body, serialNum |-> currentSerialNum,
                      sent |-> [url |-> route.url, cookie |-> sessionCookie,
                                body |-> WithSerialNum(body, currentSerialNum)]]
            /\ res' = NoResponse
  /\ UNCHANGED <<session, now, ticks, login, wm, rs, rt, reloginPending, lastAuth>>

\* POST /set-* called while no other request is in flight
SetRequest == NoneInFlight /\ SetCall

\* res.json(data): the upstream answer is the response
SetReply ==
  /\ Busy(st)
  /\ \E data \in SetAnswers :
       Respond(st.op, 200, data,
               [pending |-> st.pending, payload |-> st.payload, serialNum |-> st.serialNum,
                sent |-> st.sent, upstream |-> data])
  /\ st' = IdleProc
  /\ UNCHANGED <<session, now, ticks, login, wm, rs, rt, reloginPending, lastAuth>>

SetThrow ==
  /\ Busy(st)
  /\ Respond(st.op, 500, [error |-> Throw.msg],
             [pending |-> st.pending, payload |-> st.payload, serialNum |-> st.serialNum,
              sent |-> st.sent, upstream |-> <<>>])
  /\ st' = IdleProc
  /\ UNCHANGED <<session, now, ticks, login, wm, rs, rt, reloginPending, lastAuth>>

(***************************************************************************)
(* GET /api/eg4/realtime                                                   *)
(***************************************************************************)
\* no clamp
MathMax0_Unclamped(x) == x

\* Math.max(0, x)
MathMax0(x) == IF x > 0 THEN x ELSE 0

\* the power figures of the 200 body (the rescaled voltages, the frequency and
\* the pass-through fields are left out)
RealtimeBody(runtime, energy) ==
  LET solarW         == Or(runtime.ppv, Num(0)).n
      battChargeW    == Or(runtime.pCharge, Num(0)).n
      battDischargeW == Or(runtime.pDisCharge, Num(0)).n
      gridImportW    == Or(runtime.pToUser, Num(0)).n
      gridExportW    == Or(runtime.pToGrid, Num(0)).n
      consumptionW   == solarW + gridImportW + battDischargeW - gridExportW - battChargeW
  IN [success |-> TRUE,
      solarPower |-> solarW,
      batteryCharging |-> battChargeW,
      batteryDischarging |-> battDischargeW,
      gridImport |-> gridImportW,
      gridExport |-> gridExportW,
      consumptionPower |-> MathMax0(consumptionW),
      todaySolarYield |-> Or(energy.todayYieldingText, Str(S_0))]

\* the gate, then both fetches, built from the globals of the moment
RealtimeCall ==
  /\ ~Busy(rt)
  /\ IF ~Truthy(isSessionValid) \/ ~Truthy(currentSerialNum)
     THEN /\ Respond("realtime", 200, [success |-> FALSE, error |-> "Not connected to EG4"],
                     [pending |-> reloginPending])
          /\ rt' = IdleProc
     ELSE /\ rt' = [pc |-> "await", pending |-> reloginPending,
                    sent |-> << [url |-> "/api/inverter/getInverterRuntime",
                                 cookie |-> sessionCookie, serialNum |-> currentSerialNum],
                                [url |-> "/api/inverter/getInverterEnergyInfo",
                                 cookie |-> sessionCookie, serialNum |-> currentSerialNum] >>]
          /\ res' = NoResponse
  /\ UNCHANGED <<session, now, ticks, login, wm, rs, st, reloginPending, lastAuth>>

\* GET /realtime called while no other request is in flight
RealtimeRequest == NoneInFlight /\ RealtimeCall

\* both fetches resolved with JSON
RealtimeReply(powers) ==
  /\ Busy(rt)
  /\ \E ppv \in powers, pCharge \in powers, pDisCharge \in powers,
        pToUser \in powers, pToGrid \in powers, yield \in {Undefined, Str(<<53>>)} :
       LET runtime == [ppv |-> ppv, pCharge |-> pCharge, pDisCharge |-> pDisCharge,
                       pToUser |-> pToUser, pToGrid |-> pToGrid]
           energy  == [todayYieldingText |-> yield]
       IN Respond("realtime", 200, RealtimeBody(runtime, energy),
                  [pending |-> rt.pending, runtime |-> runtime])
  /\ rt' = IdleProc
  /\ UNCHANGED <<session, now, ticks, login, wm, rs, st, reloginPending, lastAuth>>

RealtimeThrow ==
  /\ Busy(rt)
  /\ Respond("realtime", 500, [success |-> FALSE, error |-> Throw.msg], [pending |-> rt.pending])
  /\ rt' = IdleProc
  /\ UNCHANGED <<session, now, ticks, login, wm, rs, st, reloginPending, lastAuth>>

(***************************************************************************)
(* Register replies                                                        *)
(***************************************************************************)
AllPrefixes == acPrefixes \o psSlots \o fcPrefixes \o fdPrefixes
FlagNames   == <<"FUNC_GRID_PEAK_SHAVING", "FUNC_FORCED_CHG_EN", "FUNC_FORCED_DISCHG_EN">>

\* an (hour, minute) pair of raw register values: absent fields, numbers, a
\* numeric string, a string that is no number
SlotTimes ==
  { <<Undefined, Undefined>>, <<Num(1), Undefined>>, <<Str(<<49>>), Num(30)>>,
    <<Num(24), Undefined>>, <<Str(<<120>>), Undefined>> }
\* the raw values of an enable flag
FlagValues == { Bool(TRUE), Str(S_true), Str(S_false) }

\* a JSON object holds no undefined value: such keys are absent
Compact(m) == [k \in {j \in DOMAIN m : m[j].ty # "undefined"} |-> m[k]]

SlotFields(p, from, to) ==
  Compact([k \in {p.sh, p.sm, p.eh, p.em} |->
             IF k = p.sh THEN from[1] ELSE IF k = p.sm THEN from[2]
             ELSE IF k = p.eh THEN to[1] ELSE to[2]])

\* a successful read that carries the four registers of slot i (none for i = 0)
\* and enable flag j (none for j = 0)
RegisterReply(i, from, to, j, flag) ==
  ObjectAssign(
    ObjectAssign([k \in {"success"} |-> Bool(TRUE)],
                 IF i = 0 THEN <<>> ELSE SlotFields(AllPrefixes[i], from, to)),
    IF j = 0 THEN <<>> ELSE [k \in {FlagNames[j]} |-> flag])

\* the enable flag that gates slot i: none for the AC Charge slots
FlagOfSlot(i) ==
  IF i <= Len(acPrefixes) THEN 0
  ELSE IF i <= Len(acPrefixes) + Len(psSlots) THEN 1
  ELSE IF i <= Len(acPrefixes) + Len(psSlots) + Len(fcPrefixes) THEN 2
  ELSE 3

\* a batch answers: a failure, or a read that carries nothing, one enable flag,
\* or the registers of one slot, alone or with the slot's own flag switched on
WorkingModesAnswer(slots, times, flags) ==
  \/ WorkingModesReply([k \in {"success"} |-> Bool(FALSE)])
  \/ \E i \in slots \cup {0}, j \in flags \cup {0} :
       /\ i = 0 \/ j = 0 \/ j = FlagOfSlot(i)
       /\ \E from \in (IF i = 0 THEN {<<Undefined, Undefined>>} ELSE times),
             to \in (IF i = 0 THEN {<<Undefined, Undefined>>} ELSE times),
             flag \in (IF j = 0 THEN {Undefined} ELSE IF i = 0 THEN FlagValues ELSE {Bool(TRUE)}) :
            WorkingModesReply(RegisterReply(i, from, to, j, flag))

(***************************************************************************)
(* Specifications                                                          *)
(***************************************************************************)
Next ==
  \/ Tick
  \/ LoginRequest(1) \/ LoginAuthReply(1) \/ LoginPlantsReply(1)
  \/ LoginInvertersReply(1) \/ LoginThrow(1)
  \/ SelectStation \/ Status \/ Root
  \/ WorkingModesRequest \/ WorkingModesThrow
  \/ WorkingModesAnswer({1}, {<<Undefined, Undefined>>, <<Str(<<49>>), Num(30)>>}, {})
  \/ ReadSettingsRequest \/ ReadSettingsReply \/ ReadSettingsThrow
  \/ SetRequest \/ SetReply \/ SetThrow
  \/ RealtimeRequest \/ RealtimeReply({Undefined, Num(1000)}) \/ RealtimeThrow

Spec == Init /\ [][Next]_vars

\* a logged-in server with a selected device
InitLoggedIn ==
  /\ sessionCookie = Str(<<65>>)
  /\ lastLoginTime = Num(MinuteMs)
  /\ currentSerialNum = Str(<<83, 49>>)
  /\ now = MinuteMs
  /\ ticks = 0
  /\ login = [i \in LoginIds |-> IdleProc]
  /\ wm = IdleProc /\ rs = IdleProc /\ st = IdleProc /\ rt = IdleProc
  /\ res = NoResponse
  /\ reloginPending = FALSE
  /\ lastAuth = NoAuth

NextSchedule ==
  \/ WorkingModesRequest
  \/ WorkingModesThrow
  \/ WorkingModesAnswer(1..Len(AllPrefixes), SlotTimes, 1..Len(FlagNames))

\* GET /working-modes over the register replies
SpecSchedule == InitLoggedIn /\ [][NextSchedule]_vars

PowerValues == { Undefined, Num(200), Num(1000), Num(1500) }

NextRealtime ==
  \/ RealtimeRequest
  \/ RealtimeReply(PowerValues)
  \/ RealtimeThrow

\* GET /realtime over the runtime figures
SpecRealtime == InitLoggedIn /\ [][NextRealtime]_vars

\* register values for the gap fill: 00:00, 01:00 (as a string with a leading
\* tab), 10:30, 23:00 (as the string '0x17'), 24:00 and the hours 100 and 101,
\* which no clock shows but a register can hold
GapTimes ==
  { <<Undefined, Undefined>>, <<Str(<<9, 49>>), Undefined>>, <<Num(10), Num(30)>>,
    <<Str(<<48, 120, 49, 55>>), Undefined>>, <<Num(24), Undefined>>,
    <<Num(100), Undefined>>, <<Num(101), Undefined>> }

NextGapFill ==
  \/ WorkingModesRequest
  \/ WorkingModesThrow
  \/ WorkingModesAnswer({1, 2, Len(acPrefixes) + 1}, GapTimes, {1})

\* GET /working-modes over two AC Charge slots and a Peak Shaving slot
SpecGapFill == InitLoggedIn /\ [][NextGapFill]_vars

NextRace ==
  \/ WorkingModesCall
  \/ WorkingModesThrow
  \/ WorkingModesAnswer({}, {}, {1})
  \/ SelectStationCall
  \/ LoginCall(1) \/ LoginAuthReply(1) \/ LoginPlantsReply(1)
  \/ LoginInvertersReply(1) \/ LoginThrow(1)

\* GET /working-modes interleaved with POST /select-station and POST /login
SpecRace == InitLoggedIn /\ [][NextRace]_vars

NextLogins ==
  \E self \in LoginIds :
    \/ LoginCall(self)
    \/ LoginAuthReply(self)
    \/ LoginPlantsReply(self)
    \/ LoginInvertersReply(self)
    \/ LoginThrow(self)

\* two POST /login calls in flight together
SpecLogins == Init /\ [][NextLogins]_vars

NextStatus ==
  \/ Tick
  \/ LoginCall(1) \/ LoginAuthReply(1) \/ LoginPlantsReply(1)
  \/ LoginInvertersReply(1) \/ LoginThrow(1)
  \/ StatusCall \/ RootCall

\* GET /status and GET / called at any moment, also between the awaits of a
\* POST /login, while time passes
SpecStatus == Init /\ [][NextStatus]_vars

NextReads ==
  \/ LoginCall(1) \/ LoginAuthReply(1) \/ LoginPlantsReply(1)
  \/ LoginInvertersReply(1) \/ LoginThrow(1)
  \/ SelectStationCall
  \/ ReadSettingsCall \/ ReadSettingsReply \/ ReadSettingsThrow
  \/ RealtimeCall \/ RealtimeReply({Undefined, Num(1000)}) \/ RealtimeThrow

\* GET /read-settings and GET /realtime in flight together and with a
\* POST /login, around calls of POST /select-station
SpecReads == Init /\ [][NextReads]_vars

NextSets ==
  \/ LoginCall(1) \/ LoginAuthReply(1) \/ LoginPlantsReply(1)
  \/ LoginInvertersReply(1) \/ LoginThrow(1)
  \/ SelectStationCall
  \/ SetCall \/ SetReply \/ SetThrow

\* a POST /set-* in flight together with a POST /login, around calls of
\* POST /select-station
SpecSets == Init /\ [][NextSets]_vars

(***************************************************************************)
(* Properties of the schedule (checked under SpecSchedule)                 *)
(***************************************************************************)
\* a 200 answer of GET /working-modes; res.ghost.fields are the merged registers
WorkingModesOk == res.op = "working-modes" /\ res.status = 200

Families ==
  << [name |-> "AC Charge", prefixes |-> acPrefixes, list |-> "acCharge", flag |-> ""],
     [name |-> "Peak Shaving", prefixes |-> psSlots, list |-> "peakShaving",
      flag |-> "FUNC_GRID_PEAK_SHAVING"],
     [name |-> "Forced Charge", prefixes |-> fcPrefixes, list |-> "forcedCharge",
      flag |-> "FUNC_FORCED_CHG_EN"],
     [name |-> "Forced Discharge", prefixes |-> fdPrefixes, list |-> "forcedDischarge",
      flag |-> "FUNC_FORCED_DISCHG_EN"] >>

\* the number a register field holds: an absent field counts as 0, a number as
\* itself, a string of one or two digits as its value; -1 for anything else
FieldNumber(f, k) ==
  LET v == Get(f, k)
  IN CASE v.ty = "undefined" -> 0
       [] v.ty = "number" -> v.n
       [] v.ty = "string" /\ Len(v.s) = 1 /\ IsDigit(v.s[1]) -> v.s[1] - 48
       [] v.ty = "string" /\ Len(v.s) = 2 /\ IsDigit(v.s[1]) /\ IsDigit(v.s[2]) ->
            10 * (v.s[1] - 48) + (v.s[2] - 48)
       [] OTHER -> 0 - 1

\* hours 0..24 and minutes 0..59 in all four fields of the slot
WellFormedSlot(f, p) ==
  /\ FieldNumber(f, p.sh) \in 0..24 /\ FieldNumber(f, p.eh) \in 0..24
  /\ FieldNumber(f, p.sm) \in 0..59 /\ FieldNumber(f, p.em) \in 0..59

StartsWhereItEnds(f, p) ==
  FieldNumber(f, p.sh) = FieldNumber(f, p.eh) /\ FieldNumber(f, p.sm) = FieldNumber(f, p.em)

TwoDigits(k) == <<48 + (k \div 10), 48 + (k % 10)>>
HHMM(h, m)   == TwoDigits(h) \o <<58>> \o TwoDigits(m)
SlotStart(f, p) == HHMM(FieldNumber(f, p.sh), FieldNumber(f, p.sm))
SlotEnd(f, p)   == HHMM(FieldNumber(f, p.eh), FieldNumber(f, p.em))

\* the segment a slot of the family is expected to become
SegmentOf(f, fam, p) == [mode |-> fam.name, start |-> SlotStart(f, p), end |-> SlotEnd(f, p)]

CountOf(seq, x) == Cardinality({i \in 1..Len(seq) : seq[i] = x})
CountMode(seq, name) == Cardinality({i \in 1..Len(seq) : seq[i].mode = name})

\* the family's enable flag is the literal true or the string 'true'
FlagSet(f, fam) == Get(f, fam.flag) \in {Bool(TRUE), Str(<<116, 114, 117, 101>>)}
Included(f, fam) == fam.flag = "" \/ FlagSet(f, fam)

\* the well-formed slots of the family that start and end at different times
\* and read like slot p
SameSlots(f, fam, p) ==
  {i \in 1..Len(fam.prefixes) :
     /\ WellFormedSlot(f, fam.prefixes[i])
     /\ SegmentOf(f, fam, fam.prefixes[i]) = SegmentOf(f, fam, p)}

\* C1 (as claimed): every schedule answered starts at 00:00, ends at 24:00 and
\* has each segment end where the next one starts.
C1_CoversDay ==
  WorkingModesOk =>
    LET s == res.body.schedule
    IN /\ Len(s) > 0
       /\ s[1].start = HHMM(0, 0)
       /\ s[Len(s)].end = HHMM(24, 0)
       /\ \A i \in 1..Len(s) - 1 : s[i].end = s[i + 1].start

\* C2 (as claimed): every well-formed slot whose start differs from its end is
\* in the schedule exactly once, as a segment with its family's mode name and
\* its zero-padded HH:MM start and end, whatever the enable flags are.
C2_EverySlotOnce ==
  WorkingModesOk =>
    \A n \in 1..Len(Families) : \A i \in 1..Len(Families[n].prefixes) :
      LET f == res.ghost.fields
          fam == Families[n]
          p == fam.prefixes[i]
      IN (WellFormedSlot(f, p) /\ ~StartsWhereItEnds(f, p)) =>
           CountOf(res.body.schedule, SegmentOf(f, fam, p))
             = Cardinality(SameSlots(f, fam, p))

\* C2 (amended): every well-formed slot whose start differs from its end, of
\* AC Charge or of a family whose enable flag is set, is in the schedule
\* exactly once (one segment for each such slot), as a segment with its
\* family's mode name and its zero-padded HH:MM start and end.
C2_EveryEnabledSlotOnce ==
  WorkingModesOk =>
    \A n \in 1..Len(Families) : \A i \in 1..Len(Families[n].prefixes) :
      LET f == res.ghost.fields
          fam == Families[n]
          p == fam.prefixes[i]
      IN (WellFormedSlot(f, p) /\ ~StartsWhereItEnds(f, p) /\ Included(f, fam)) =>
           CountOf(res.body.schedule, SegmentOf(f, fam, p))
             = Cardinality(SameSlots(f, fam, p))

\* C2 witness: an AC Charge slot and an enabled Peak Shaving slot, both
\* well-formed with a start that differs from the end, both in the schedule.
C2_Witness ==
  /\ WorkingModesOk
  /\ \E i \in 1..Len(acPrefixes), j \in 1..Len(psSlots) :
       LET f == res.ghost.fields
       IN /\ WellFormedSlot(f, acPrefixes[i]) /\ ~StartsWhereItEnds(f, acPrefixes[i])
          /\ WellFormedSlot(f, psSlots[j]) /\ ~StartsWhereItEnds(f, psSlots[j])
          /\ FlagSet(f, Families[2])
          /\ CountOf(res.body.schedule, SegmentOf(f, Families[1], acPrefixes[i])) = 1
          /\ CountOf(res.body.schedule, SegmentOf(f, Families[2], psSlots[j])) = 1

\* C3: a gated family has as many segments in the schedule as it has kept
\* slots when its flag is true or 'true' and none for any other flag value;
\* AC Charge has a segment for each of its kept slots whatever the flags are.
C3_EnableGating ==
  WorkingModesOk =>
    \A n \in 1..Len(Families) :
      LET f == res.ghost.fields
          fam == Families[n]
      IN CountMode(res.body.schedule, fam.name)
           = IF Included(f, fam) THEN Len(res.body[fam.list]) ELSE 0

\* C3 witness: the Peak Shaving flag holds the string 'false', a Peak Shaving
\* slot is kept in the raw list, and the schedule has no Peak Shaving segment.
C3_Witness ==
  /\ WorkingModesOk
  /\ Get(res.ghost.fields, "FUNC_GRID_PEAK_SHAVING") = Str(S_false)
  /\ Len(res.body.peakShaving) > 0
  /\ CountMode(res.body.schedule, "Peak Shaving") = 0

\* the registers of slot p are in the reply
SlotPresent(f, p) == {p.sh, p.sm, p.eh, p.em} \cap DOMAIN f # {}
\* the same input with the four fields of slot p absent
WithoutSlot(f, p) == [k \in DOMAIN f \ {p.sh, p.sm, p.eh, p.em} |-> f[k]]

\* the number a register field stands for: parsed as the handler parses it,
\* a missing or unparseable field reading as 0
FieldAsRead(f, k) == LET v == ReadInt(f, k) IN IF v.ty = "number" THEN v.n ELSE 0

\* the slot's start equals its end
StartEqualsEnd(f, p) ==
  FieldAsRead(f, p.sh) = FieldAsRead(f, p.eh) /\ FieldAsRead(f, p.sm) = FieldAsRead(f, p.em)

\* the slot's start and end as the handler renders them
RenderedStart(f, p) == FormatTime(ReadInt(f, p.sh), ReadInt(f, p.sm))
RenderedEnd(f, p)   == FormatTime(ReadInt(f, p.eh), ReadInt(f, p.em))

\* C4 (as claimed): a slot whose start equals its end is in neither its
\* family's raw list nor the schedule, and the schedule and the raw lists are
\* those of the same input without the slot's four fields.
C4_DegenerateDropped ==
  WorkingModesOk =>
    \A n \in 1..Len(Families) : \A i \in 1..Len(Families[n].prefixes) :
      LET f == res.ghost.fields
          fam == Families[n]
          p == fam.prefixes[i]
          from == RenderedStart(f, p)
          to == RenderedEnd(f, p)
          other == WorkingModesBody(WithoutSlot(f, p))
      IN (SlotPresent(f, p) /\ StartEqualsEnd(f, p)) =>
           /\ \A j \in 1..Len(res.body[fam.list]) :
                ~(res.body[fam.list][j].start = from /\ res.body[fam.list][j].end = to)
           /\ \A j \in 1..Len(res.body.schedule) :
                ~(res.body.schedule[j].start = from /\ res.body.schedule[j].end = to)
           /\ res.body.schedule = other.schedule
           /\ \A m \in 1..Len(Families) :
                res.body[Families[m].list] = other[Families[m].list]

\* no family is both included and has a kept slot
NothingScheduled ==
  \A n \in 1..Len(Families) :
    ~Included(res.ghost.fields, Families[n]) \/ Len(res.body[Families[n].list]) = 0

\* C5: when no family yields a kept and enabled slot, the schedule is the one
\* segment Self Consumption 00:00-24:00.
C5_EmptyIsSelfConsumption ==
  (WorkingModesOk /\ NothingScheduled) =>
    res.body.schedule =
      << [mode |-> "Self Consumption", start |-> HHMM(0, 0), end |-> HHMM(24, 0)] >>

\* C5 witness: the only kept slots belong to a family that is switched off.
C5_Witness ==
  /\ WorkingModesOk
  /\ NothingScheduled
  /\ Len(res.body.forcedCharge) + Len(res.body.peakShaving) = 2
  /\ Len(res.body.schedule) = 1

(***************************************************************************)
(* Properties of the session and of the forwarding handlers (C6 under      *)
(* SpecStatus, C7 and C8 under Spec, C9 under SpecSets)                    *)
(***************************************************************************)
\* C6: GET /status reports the session connected exactly when a credential is
\* stored and less than 30 minutes have passed since it was acquired: connected
\* at 29 minutes, not connected at 30 and at 31 minutes.
C6_SessionTimeout ==
  res.op = "status" =>
    LET stored    == res.ghost.cookie.ty # "null" /\ res.body.lastLogin.ty # "null"
        age       == res.at - res.body.lastLogin.n
        connected == Truthy(res.body.connected)
    IN /\ connected <=> (stored /\ age < 30 * MinuteMs)
       /\ (stored /\ age = 29 * MinuteMs) => connected
       /\ (stored /\ age \in {30 * MinuteMs, 31 * MinuteMs}) => ~connected

\* C6 witness: a status answer exactly 30 minutes after the login, with the
\* credential still stored, reports not connected.
C6_Witness ==
  /\ res.op = "status"
  /\ res.ghost.cookie.ty = "string"
  /\ res.body.lastLogin.ty = "isodate"
  /\ res.at - res.body.lastLogin.n = 30 * MinuteMs
  /\ ~Truthy(res.body.connected)

\* C7 (as claimed): while the session has been invalid and no login has
\* succeeded since, no gated handler gets past its gate (none has a request
\* upstream), working-modes, read-settings and set-* answer 401 and realtime
\* answers the soft failure.
C7_NoRefresh ==
  /\ Busy(wm) => ~wm.pending
  /\ Busy(rs) => ~rs.pending
  /\ Busy(st) => ~st.pending
  /\ Busy(rt) => ~rt.pending
  /\ (res.op \in {"working-modes", "read-settings"} \cup SetOps /\ res.ghost.pending)
       => res.status = 401
  /\ (res.op = "realtime" /\ res.ghost.pending)
       => (res.status = 200 /\ res.body.success = FALSE)

\* C8 (as claimed): a login that answers with an error leaves the credential
\* and its acquisition time as they were before the call.
C8_FailedLoginKeepsSession ==
  (res.op = "login" /\ res.status # 200) =>
    <<sessionCookie, lastLoginTime>> = res.ghost.before

\* the forwarded body is the caller's payload with serialNum set to sn
Forwarded(body, payload, sn) ==
  /\ DOMAIN body = DOMAIN payload \cup {"serialNum"}
  /\ body["serialNum"] = sn
  /\ \A k \in DOMAIN payload \ {"serialNum"} : body[k] = payload[k]

\* C9: a set-* call that passed the gate forwards the caller's payload with
\* serialNum set to the serial number of the device selected at that moment
\* (st.serialNum; another device may be selected before the upstream
\* answers), also over a serialNum of the caller's, and answers with the
\* upstream's JSON unchanged.
C9_SerialInjected ==
  /\ Busy(st) => Forwarded(st.sent.body, st.payload, st.serialNum)
  /\ (res.op \in SetOps /\ res.status = 200) =>
       /\ Forwarded(res.ghost.sent.body, res.ghost.payload, res.ghost.serialNum)
       /\ res.body = res.ghost.upstream

\* C9 witness: a set-* call whose payload carried another serialNum was
\* answered by the upstream while a device was selected.
C9_Witness ==
  /\ res.op \in SetOps
  /\ res.status = 200
  /\ "serialNum" \in DOMAIN res.ghost.payload
  /\ res.ghost.serialNum.ty = "string"
  /\ res.ghost.payload["serialNum"] # res.ghost.serialNum
  /\ res.body = [k \in {"success"} |-> Bool(TRUE)]

(***************************************************************************)
(* Properties of the telemetry (checked under SpecRealtime)                *)
(***************************************************************************)
\* a runtime figure: an absent field counts as 0
Watts(v) == IF v.ty = "number" THEN v.n ELSE 0

\* C10: consumptionPower is never negative and equals
\* max(0, solar + gridImport + batteryDischarge - gridExport - batteryCharge).
C10_ConsumptionClamped ==
  (res.op = "realtime" /\ res.status = 200 /\ res.body.success) =>
    LET r   == res.ghost.runtime
        net == Watts(r.ppv) + Watts(r.pToUser) + Watts(r.pDisCharge)
                 - Watts(r.pToGrid) - Watts(r.pCharge)
    IN /\ res.body.consumptionPower >= 0
       /\ res.body.consumptionPower = IF net < 0 THEN 0 ELSE net

\* C10 witness: ppv 1000, pToUser 200, pToGrid 1500 and nothing else reports 0.
C10_Witness ==
  /\ res.op = "realtime" /\ res.status = 200 /\ res.body.success
  /\ res.ghost.runtime = [ppv |-> Num(1000), pCharge |-> Undefined, pDisCharge |-> Undefined,
                           pToUser |-> Num(200), pToGrid |-> Num(1500)]
  /\ res.body.consumptionPower = 0

(***************************************************************************)
(* Properties of the station listing (checked under Spec)                  *)
(***************************************************************************)
RECURSIVE PairsOf(_)
\* the (plant, inverter) pairs of a listing, plant by plant, inverters in the
\* order of each reply
PairsOf(listed) ==
  IF listed = <<>> THEN <<>>
  ELSE [j \in 1..Len(Head(listed).invs) |-> <<Head(listed).plant, Head(listed).invs[j]>>]
       \o PairsOf(Tail(listed))

\* station s describes the pair (plant, inverter)
StationFor(s, pair) ==
  /\ s.plantId = pair[1].id /\ s.plantName = pair[1].name /\ s.address = pair[1].address
  /\ s.serialNum = pair[2].serialNum /\ s.deviceType = pair[2].deviceTypeText
  /\ s.status = pair[2].statusText

\* C11: a login that answers 200 has listed every plant of the plant list and
\* returns one station per (plant, inverter) pair in plant-then-inverter order;
\* a login that answers with an error returns no station list, also when
\* stations had been gathered before the failure.
C11_StationsAllOrNothing ==
  /\ (res.op = "login" /\ res.status = 200) =>
       LET pairs == PairsOf(res.ghost.listed)
       IN /\ [i \in 1..Len(res.ghost.listed) |-> res.ghost.listed[i].plant] = res.ghost.rows
          /\ Len(res.body.stations) = Len(pairs)
          /\ \A k \in 1..Len(pairs) : StationFor(res.body.stations[k], pairs[k])
  /\ (res.op = "login" /\ res.status # 200) =>
       /\ "stations" \notin DOMAIN res.body
       /\ "error" \in DOMAIN res.body

\* C11 witness: the listing failed after the first plant's two inverters had
\* been gathered, and the answer is a 500 without stations.
C11_Witness ==
  /\ res.op = "login" /\ res.status = 500
  /\ Len(res.ghost.rows) = 2
  /\ Len(res.ghost.gathered) = 2
  /\ "stations" \notin DOMAIN res.body

(***************************************************************************)
(* Properties of the batch reads (checked under Spec)                      *)
(***************************************************************************)
\* C12: a GET /working-modes call whose read of a batch failed (success false
\* or a throw) answers 500 without a schedule and has sent no read after the
\* failed one; a schedule is answered only after both batches were read with
\* success, one read each.
C12_BatchFailureAborts ==
  /\ (res.op = "working-modes" /\ res.status = 500) =>
       /\ "schedule" \notin DOMAIN res.body
       /\ Len(res.ghost.reads) = Len(res.ghost.answers)
       /\ res.ghost.answers[Len(res.ghost.answers)] \in {"failed", "throw"}
  /\ (res.op = "working-modes" /\ res.status = 200) =>
       /\ "schedule" \in DOMAIN res.body
       /\ res.ghost.answers = <<"ok", "ok">>
       /\ [i \in 1..Len(res.ghost.reads) |-> res.ghost.reads[i].startRegister] = <<0, 127>>
  /\ (res.op = "working-modes" /\ "schedule" \in DOMAIN res.body) => res.status = 200
  /\ Busy(wm) =>
       /\ Len(wm.reads) = Len(wm.answers) + 1
       /\ \A i \in 1..Len(wm.answers) : wm.answers[i] = "ok"

\* C12 witness: the first batch came back with success false; the answer is a
\* 500 and the second batch was never read.
C12_Witness ==
  /\ res.op = "working-modes" /\ res.status = 500
  /\ res.ghost.answers = <<"failed">>
  /\ Len(res.ghost.reads) = 1
  /\ ~Busy(wm)

(***************************************************************************)
(* Properties of the field defaults (checked under SpecSchedule)           *)
(***************************************************************************)
\* the field is absent, or a string in which no digit follows the leading
\* white space and sign
MissingOrUnparseable(f, k) ==
  LET v == Get(f, k)
      t == SkipSpaces(v.s)
      u == IF t # <<>> /\ Head(t) \in {43, 45} THEN Tail(t) ELSE t
  IN v.ty = "undefined" \/ (v.ty = "string" /\ (u = <<>> \/ ~IsDigit(u[1])))

\* two digits, a colon, two digits
IsHHMM(cs) ==
  /\ Len(cs) = 5
  /\ IsDigit(cs[1]) /\ IsDigit(cs[2]) /\ cs[3] = 58 /\ IsDigit(cs[4]) /\ IsDigit(cs[5])

\* C13 (as claimed): a slot whose four fields are all missing or unparseable
\* is dropped (the answer is the one of the same input without the slot's
\* fields), and every start and end in the raw lists and in the schedule is a
\* zero-padded HH:MM string of digits.
C13_UnparseableReadsAsZero ==
  WorkingModesOk =>
    LET f == res.ghost.fields
    IN /\ \A n \in 1..Len(Families) : \A i \in 1..Len(Families[n].prefixes) :
            LET p == Families[n].prefixes[i]
                other == WorkingModesBody(WithoutSlot(f, p))
            IN (\A k \in {p.sh, p.sm, p.eh, p.em} : MissingOrUnparseable(f, k)) =>
                 /\ res.body.schedule = other.schedule
                 /\ \A m \in 1..Len(Families) :
                      res.body[Families[m].list] = other[Families[m].list]
       /\ \A j \in 1..Len(res.body.schedule) :
            IsHHMM(res.body.schedule[j].start) /\ IsHHMM(res.body.schedule[j].end)
       /\ \A m \in 1..Len(Families) : \A j \in 1..Len(res.body[Families[m].list]) :
            /\ IsHHMM(res.body[Families[m].list][j].start)
            /\ IsHHMM(res.body[Families[m].list][j].end)

(***************************************************************************)
(* Properties of the gap fill (checked under SpecGapFill)                  *)
(***************************************************************************)
\* the kept slots of the included families, as (family, index in its raw list)
KeptEnabled(f, body) ==
  { x \in (1..Len(Families)) \X (1..3) :
      Included(f, Families[x[1]]) /\ x[2] <= Len(body[Families[x[1]].list]) }

\* the segment a kept slot becomes
KeptSegment(body, x) ==
  [mode |-> Families[x[1]].name,
   start |-> body[Families[x[1]].list][x[2]].start,
   end |-> body[Families[x[1]].list][x[2]].end]

\* a <= b on strings
StrLE(a, b) == a = b \/ SeqLess(a, b)

\* every kept and enabled slot has start < end <= "24:00" and no two overlap,
\* the strings compared as the walk compares them
SlotsDisjoint(f, body) ==
  /\ \A x \in KeptEnabled(f, body) :
       LET m == KeptSegment(body, x)
       IN SeqLess(m.start, m.end) /\ StrLE(m.end, HHMM(24, 0))
  /\ \A x, y \in KeptEnabled(f, body) :
       x # y => \/ StrLE(KeptSegment(body, x).end, KeptSegment(body, y).start)
                \/ StrLE(KeptSegment(body, y).end, KeptSegment(body, x).start)

\* the schedule is a partition of the day: ascending, from 00:00 to 24:00,
\* contiguous, the slots once each, Self Consumption exactly in the gaps
IsPartition(f, body) ==
  LET s == body.schedule
  IN /\ Len(s) > 0
     /\ s[1].start = HHMM(0, 0)
     /\ s[Len(s)].end = HHMM(24, 0)
     /\ \A i \in 1..Len(s) - 1 :
          /\ s[i].end = s[i + 1].start
          /\ SeqLess(s[i].start, s[i + 1].start)
          /\ ~(s[i].mode = "Self Consumption" /\ s[i + 1].mode = "Self Consumption")
     /\ \A i \in 1..Len(s) :
          IF s[i].mode = "Self Consumption"
          THEN SeqLess(s[i].start, s[i].end)
          ELSE \E x \in KeptEnabled(f, body) : KeptSegment(body, x) = s[i]
     /\ \A x \in KeptEnabled(f, body) : CountOf(s, KeptSegment(body, x)) = 1

\* C14 (as claimed): when the kept and enabled slots all have
\* start < end <= "24:00" and do not overlap, the schedule is a partition of
\* the day: ascending, from 00:00 to 24:00, contiguous, Self Consumption
\* exactly in the gaps.
C14_PartitionWhenDisjoint ==
  (WorkingModesOk /\ SlotsDisjoint(res.ghost.fields, res.body))
    => IsPartition(res.ghost.fields, res.body)

(***************************************************************************)
(* Properties of interleaved requests (checked under SpecRace, SpecLogins) *)
(***************************************************************************)
\* C15 (as claimed): the register reads behind one working-modes answer all
\* name the device and carry the credential of the first read, which is sent
\* as the request passes its gates.
C15_BatchesFromOneDevice ==
  /\ Busy(wm) =>
       \A i \in 1..Len(wm.reads) :
         /\ wm.reads[i].inverterSn = wm.reads[1].inverterSn
         /\ wm.reads[i].cookie = wm.reads[1].cookie
  /\ (res.op = "working-modes" /\ res.status = 200) =>
       \A i \in 1..Len(res.ghost.reads) :
         /\ res.ghost.reads[i].inverterSn = res.ghost.reads[1].inverterSn
         /\ res.ghost.reads[i].cookie = res.ghost.reads[1].cookie

\* every listing fetch of the call carried the credential its own
\* authentication returned
OwnCredentialOnly(own, cookies) == \A k \in 1..Len(cookies) : cookies[k] = own

\* C16 (as claimed): each login sends its plant-list and inverter-list fetches
\* with the credential its own authentication returned, and once no login is
\* in flight the stored credential is the one of the authentication response
\* processed last.
C16_LoginsKeepOwnCredential ==
  /\ \A i \in LoginIds :
       Busy(login[i]) => OwnCredentialOnly(login[i].own, login[i].cookies)
  /\ (res.op = "login" /\ res.status \in {200, 500}) =>
       OwnCredentialOnly(res.ghost.own, res.ghost.cookies)
  /\ ((\A i \in LoginIds : ~Busy(login[i])) /\ lastAuth.id # 0) =>
       sessionCookie = lastAuth.cookie

====
